---- MODULE Spec2Model ----
(***************************************************************************)
(* RetryHandler (http/typescript/fetch/src/middlewares/retryHandler.ts):   *)
(* the retry middleware of the fetch HTTP pipeline.  One exchange is one   *)
(* call of RetryHandler.execute(context).                                  *)
(*                                                                         *)
(* Numbers that the code handles in seconds (delay, maxDelay, jitter, the  *)
(* Retry-After hint) are kept in thousandths of a second, so the 3-decimal *)
(* jitter of getRandomness is an integer 0..999.  A JavaScript number is   *)
(* the record [nan, v]: NaN is a value of its own and never an integer.    *)
(***************************************************************************)
EXTENDS Integers, Sequences, FiniteSets, TLC

\* Largest maxRetries a RetryHandlerOptions of the model carries.
MaxRetriesBound == 2

\* Largest attempt count the backoff term is tabulated for.
MaxBackoffAttempt == 4

(***************************************************************************)
(* JavaScript values                                                       *)
(***************************************************************************)
NaN == [nan |-> TRUE, v |-> 0]

Num(v) == [nan |-> FALSE, v |-> v]

\* Math.min: NaN if either argument is NaN.
MathMin(a, b) ==
    IF a.nan \/ b.nan THEN NaN
    ELSE IF a.v <= b.v THEN a ELSE b

\* a + b on numbers.
Plus(a, b) == IF a.nan \/ b.nan THEN NaN ELSE Num(a.v + b.v)

\* Math.round(x / 1000) for x in thousandths, as a number of whole seconds
\* (kept in thousandths): halves round towards +Infinity.
MathRoundSeconds(x) == IF x.nan THEN NaN ELSE Num(((x.v + 500) \div 1000) * 1000)

\* A typed JavaScript value, for ===.
JsString(s) == [t |-> "string", v |-> s]

JsObject(o) == [t |-> "object", v |-> o]

\* a === b: values of different types are never equal.
StrictEquals(a, b) == a.t = b.t /\ a.v = b.v

Digit == <<"0", "1", "2", "3", "4", "5", "6", "7", "8", "9">>

\* Number.prototype.toString() of a non-negative integer: its decimal digits.
RECURSIVE NumberToString(_)
NumberToString(n) ==
    IF n < 10 THEN Digit[n + 1]
    ELSE NumberToString(n \div 10) \o Digit[(n % 10) + 1]

DigitValue(c) == CHOOSE d \in 0..9 : Digit[d + 1] = c

IsDigits(s) == \A i \in 1..Len(s) : \E d \in 1..10 : Digit[d] = s[i]

RECURSIVE DigitsValue(_)
DigitsValue(s) ==
    IF Len(s) = 0 THEN 0
    ELSE 10 * DigitsValue(SubSeq(s, 1, Len(s) - 1)) + DigitValue(s[Len(s)])

\* Number(s) of a header value s, a sequence of characters: the empty string
\* is 0, an optionally signed run of digits is its value, anything else NaN.
\* The result is in seconds (kept in thousandths).
Number(s) ==
    IF Len(s) = 0 THEN Num(0)
    ELSE IF s[1] = "-" /\ Len(s) > 1 /\ IsDigits(Tail(s))
         THEN Num(0 - 1000 * DigitsValue(Tail(s)))
    ELSE IF IsDigits(s) THEN Num(1000 * DigitsValue(s))
    ELSE NaN

\* The HTTP dates of the model, each with its instant in milliseconds.
PastDate == <<"Thu,", "01", "Jan", "1970", "00:00:10", "GMT">>

FutureDate == <<"Thu,", "01", "Jan", "1970", "00:00:27", "GMT">>

\* new Date(s).getTime(): NaN for a string that is no date.
DateGetTime(s) ==
    IF s = PastDate THEN Num(10000)
    ELSE IF s = FutureDate THEN Num(27000)
    ELSE NaN

\* Date.now() at the moments the model looks at the clock.
Clock == {20000, 20600}

\* getRandomness(): Number(Math.random().toFixed(3)), in thousandths.
Jitter == {0, 999}

(***************************************************************************)
(* Constants of the handler                                                *)
(***************************************************************************)
RETRY_STATUS_CODES == {429, 503, 504}

RETRY_ATTEMPT_HEADER == "Retry-Attempt"

RETRY_AFTER_HEADER == "Retry-After"

PUT == "PUT"

PATCH == "PATCH"

POST == "POST"

GET == "GET"

(***************************************************************************)
(* RetryHandlerOptions                                                     *)
(***************************************************************************)
\* shouldRetry callbacks: the default (always true), one that always vetoes,
\* and a caller's own, whose verdict the model leaves open at every call.
Predicates == {"always", "never", "custom"}

Policies ==
    [maxRetries : 0..MaxRetriesBound,
     delay : {1000, 3000},
     maxDelay : {2000, 180000},
     shouldRetry : Predicates]

\* The options a handler is constructed with.
HandlerPolicies ==
    {p \in Policies : p.delay = 3000 /\ p.maxRetries \in {0, MaxRetriesBound}
                      /\ p.shouldRetry # "custom"}

\* RetryHandlerOptions.getMaxDelay()
getMaxDelay(options) == Num(options.maxDelay)

\* The verdicts options.shouldRetry(delay, attempts, request, options, response)
\* can return.
shouldRetry(options, delay, retryAttempts, request, reqOptions, response) ==
    CASE options.shouldRetry = "always" -> {TRUE}
      [] options.shouldRetry = "never" -> {FALSE}
      [] OTHER -> BOOLEAN

(***************************************************************************)
(* Requests and responses                                                  *)
(***************************************************************************)
NoHeaders == [h \in {} |-> ""]

HeadersHas(headers, name) == name \in DOMAIN headers

\* getRequestHeader(request, options, key): the header as a typed value.
getRequestHeader(request, reqOptions, key) ==
    IF HeadersHas(reqOptions.headers, key)
    THEN JsString(reqOptions.headers[key])
    ELSE [t |-> "undefined", v |-> ""]

\* setRequestHeader(request, options, key, value): the options with the
\* header set to the value.
setRequestHeader(request, reqOptions, key, value) ==
    [reqOptions EXCEPT
        !.headers = [h \in (DOMAIN reqOptions.headers) \cup {key} |->
                        IF h = key THEN value ELSE reqOptions.headers[h]]]

Methods == {GET, POST, PUT, PATCH}

ContentTypes == {"application/octet-stream", "application/json"}

RequestOptions ==
    {[method |-> m, headers |-> ("Content-Type" :> ct)] :
        m \in Methods, ct \in ContentTypes}

RetryAfterValues ==
    {<<"2">>, <<"-", "5">>, <<"3", "0", "0">>, PastDate, FutureDate,
     <<"s", "o", "o", "n">>}

WithRetryAfter(status, value) ==
    [status |-> status, headers |-> (RETRY_AFTER_HEADER :> value)]

WithoutRetryAfter(status) == [status |-> status, headers |-> NoHeaders]

\* The responses the downstream step returns: every status without a hint,
\* and 503 with every kind of hint.
Responses ==
    {WithoutRetryAfter(s) : s \in {200, 500, 429, 503, 504}}
    \cup {WithRetryAfter(503, v) : v \in RetryAfterValues}

\* The failures the downstream step raises.
TransportErrors == {"TypeError: fetch failed", "AbortError"}

\* context.middlewareControl: none, or a MiddlewareControl that holds a
\* RetryHandlerOptions or none.
MiddlewareControls ==
    {<<>>, <<[retryOptions |-> <<>>]>>}
    \cup {<<[retryOptions |-> <<p>>]>> : p \in Policies}

VARIABLES
    this_options,   \* the handler's options field
    ex              \* the exchanges: the frames of execute / executeWithRetry

vars == <<this_options, ex>>


(***************************************************************************)
(* The handler's pure methods                                              *)
(***************************************************************************)
\* isRetry as it would be if every server error were retried.
isRetryServerErrors(response) ==
    response.status \in RETRY_STATUS_CODES \cup {500}

\* isRetry(response)
isRetry(response) == response.status \in RETRY_STATUS_CODES

\* isBuffered(request, options): "const method = options" makes method the
\* options object itself, which is compared with the HttpMethod strings.
isBuffered(request, reqOptions) ==
    LET method == JsObject(reqOptions)
        isPutPatchOrPost ==
            \/ StrictEquals(method, JsString(PUT))
            \/ StrictEquals(method, JsString(PATCH))
            \/ StrictEquals(method, JsString(POST))
        isStream ==
            StrictEquals(getRequestHeader(request, reqOptions, "Content-Type"),
                         JsString("application/octet-stream"))
    IN  IF isPutPatchOrPost /\ isStream THEN FALSE ELSE TRUE

\* getExponentialBackOffTime as it would be with Math.floor for Math.round.
getExponentialBackOffTimeFloored(attempts) ==
    Num(((500 * (2 ^ attempts - 1)) \div 1000) * 1000)

\* getExponentialBackOffTime(attempts): Math.round((1 / 2) * (2 ** attempts - 1))
getExponentialBackOffTime(attempts) ==
    MathRoundSeconds(Num(500 * (2 ^ attempts - 1)))

\* getDelay as it would be if the server's hint were added to the base delay
\* and the jitter instead of replacing them.
getDelayHintAdded(self_options, response, retryAttempts, delay, now, rnd1, rnd2) ==
    LET newDelay ==
            IF HeadersHas(response.headers, RETRY_AFTER_HEADER)
            THEN LET retryAfter == response.headers[RETRY_AFTER_HEADER]
                 IN  IF Number(retryAfter).nan
                     THEN MathRoundSeconds(Plus(DateGetTime(retryAfter), Num(0 - now)))
                     ELSE Plus(Plus(Number(retryAfter), Num(delay)), Num(rnd2))
            ELSE IF retryAttempts >= 2
                 THEN Plus(Plus(getExponentialBackOffTime(retryAttempts), Num(delay)),
                           Num(rnd1))
                 ELSE Plus(Num(delay), Num(rnd1))
    IN  MathMin(newDelay, Plus(getMaxDelay(self_options), Num(rnd2)))

\* getDelay(response, retryAttempts, delay) of the handler whose options field
\* is self_options, with the clock reading and the two getRandomness() draws
\* it makes (rnd1 is drawn only when there is no Retry-After header).
getDelay(self_options, response, retryAttempts, delay, now, rnd1, rnd2) ==
    LET newDelay ==
            IF HeadersHas(response.headers, RETRY_AFTER_HEADER)
            THEN LET retryAfter == response.headers[RETRY_AFTER_HEADER]
                 IN  IF Number(retryAfter).nan
                     THEN MathRoundSeconds(Plus(DateGetTime(retryAfter), Num(0 - now)))
                     ELSE Number(retryAfter)
            ELSE IF retryAttempts >= 2
                 THEN Plus(Plus(getExponentialBackOffTime(retryAttempts), Num(delay)),
                           Num(rnd1))
                 ELSE Plus(Num(delay), Num(rnd1))
    IN  MathMin(newDelay, Plus(getMaxDelay(self_options), Num(rnd2)))

\* sleep(delaySeconds): the milliseconds setTimeout waits; a NaN or negative
\* timeout counts as 0.
sleep(delaySeconds) ==
    IF delaySeconds.nan \/ delaySeconds.v < 0 THEN 0 ELSE delaySeconds.v

\* getOptions(context): the override held by the context's MiddlewareControl,
\* or else a copy of the handler's options.
getOptions(self_options, middlewareControl) ==
    IF Len(middlewareControl) = 1 /\ Len(middlewareControl[1].retryOptions) = 1
    THEN middlewareControl[1].retryOptions[1]
    ELSE self_options

\* The budget check as it would be with <= for <.
WithinBudgetInclusive(retryAttempts, options) == retryAttempts <= options.maxRetries

\* retryAttempts < options.maxRetries
WithinBudget(retryAttempts, options) == retryAttempts < options.maxRetries

\* The mechanical part of the condition of executeWithRetry, evaluated before
\* options.shouldRetry is called.
MechanicalChecks(x, retryAttempts, options) ==
    /\ WithinBudget(retryAttempts, options)
    /\ isRetry(x.response[1])
    /\ isBuffered(x.request, x.reqOptions)

\* The condition as it would be without its call of options.shouldRetry.
RetryConditionWithoutPredicate(x, retryAttempts, options, verdict) ==
    MechanicalChecks(x, retryAttempts, options)

\* The whole condition, given the verdict shouldRetry returns when called.
RetryCondition(x, retryAttempts, options, verdict) ==
    MechanicalChecks(x, retryAttempts, options) /\ verdict

\* The stamping as it would be if it came before ++retryAttempts.
StampRetryAttemptBeforeIncrement(x, retryAttempts) ==
    setRequestHeader(x.request, x.reqOptions, RETRY_ATTEMPT_HEADER,
                     NumberToString(retryAttempts - 1))

\* setRequestHeader(..., RETRY_ATTEMPT_HEADER, retryAttempts.toString())
StampRetryAttempt(x, retryAttempts) ==
    setRequestHeader(x.request, x.reqOptions, RETRY_ATTEMPT_HEADER,
                     NumberToString(retryAttempts))

(***************************************************************************)
(* The exchanges                                                           *)
(***************************************************************************)
\* An exchange before execute is called on its context.  The fields from
\* calls on record what has happened, for the properties below.
NewExchange(reqOptions, middlewareControl) ==
    [pc |-> "idle",
     request |-> "https://example.org/items",
     reqOptions |-> reqOptions,
     middlewareControl |-> middlewareControl,
     response |-> <<>>,
     options |-> <<>>,
     retryAttempts |-> 0,
     delay |-> <<>>,
     timer |-> <<>>,
     calls |-> 0,
     responses |-> 0,
     waits |-> 0,
     stamps |-> 0,
     srCalls |-> 0,
     firstRetryable |-> TRUE,
     allRetryable |-> TRUE,
     vetoed |-> FALSE,
     draws |-> <<>>,
     approved |-> 0,
     fired |-> 0,
     srArgs |-> <<>>,
     lastProduced |-> <<>>,
     failure |-> <<>>,
     rejection |-> <<>>,
     cancelledAt |-> <<>>,
     mutated |-> FALSE]

Init ==
    /\ this_options \in HandlerPolicies
    /\ ex \in [{1} -> {NewExchange(o, c) : o \in RequestOptions, c \in MiddlewareControls}]

\* execute as it would be if the attempt counter were a field of the handler
\* that execute resets, instead of a local of each call.
executeSharedCounter(e) ==
    /\ ex[e].pc = "idle"
    /\ ex' = [f \in DOMAIN ex |->
                IF f = e
                THEN [ex[f] EXCEPT !.pc = "executing",
                                   !.options = <<getOptions(this_options, ex[e].middlewareControl)>>,
                                   !.retryAttempts = 0,
                                   !.calls = @ + 1]
                ELSE [ex[f] EXCEPT !.retryAttempts = 0]]
    /\ UNCHANGED this_options

\* execute(context): resolve the options and enter executeWithRetry with
\* retryAttempts = 0, which invokes next.execute.
execute(e) ==
    /\ ex[e].pc = "idle"
    /\ ex' = [ex EXCEPT ![e] =
                [@ EXCEPT !.pc = "executing",
                          !.options = <<getOptions(this_options, ex[e].middlewareControl)>>,
                          !.retryAttempts = 0,
                          !.calls = @ + 1]]
    /\ UNCHANGED this_options

\* The attempt number passed to options.shouldRetry in the condition, which
\* is evaluated before ++retryAttempts.
ShouldRetryArgumentAfterIncrement(retryAttempts) == retryAttempts + 1

ShouldRetryArgument(retryAttempts) == retryAttempts

\* "await this.sleep(delay)" as it would be without the await: the timer is
\* set and the recursive call invokes next.execute at once.
SuspendNotAwaited(x, delay) ==
    [x EXCEPT !.pc = "executing",
              !.draws = <<>>,
              !.waits = @ + 1,
              !.calls = @ + 1]

\* "await this.sleep(delay)": the frame is suspended until the timer fires.
Suspend(x, delay) ==
    [x EXCEPT !.pc = "sleeping",
              !.delay = <<delay>>,
              !.timer = <<sleep(delay)>>,
              !.waits = @ + 1]

\* The else branch as it would be if it threw once the retries are used up.
ReturnOrThrowExhausted(x) ==
    IF x.retryAttempts >= x.options[1].maxRetries /\ isRetry(x.response[1])
    THEN [x EXCEPT !.pc = "failed", !.rejection = <<"Error: retries exhausted">>]
    ELSE [x EXCEPT !.pc = "done"]

\* The else branch of executeWithRetry: "return;", with the context as the
\* downstream step left it.
Return(x) == [x EXCEPT !.pc = "done"]

\* The frame after "await this.next.execute(context)" returned with the
\* response in the context: up to "await this.sleep(delay)" or the return.
AfterResponse(x, response, verdict, now, rnd1, rnd2) ==
    LET got == [x EXCEPT !.response = <<response>>,
                         !.lastProduced = <<response>>,
                         !.responses = @ + 1,
                         !.firstRetryable =
                             IF x.responses = 0
                             THEN response.status \in {429, 503, 504} ELSE @,
                         !.allRetryable = @ /\ response.status \in {429, 503, 504}]
        options == x.options[1]
        asked == MechanicalChecks(got, x.retryAttempts, options)
        seen == [got EXCEPT !.srCalls = IF asked THEN @ + 1 ELSE @,
                            !.srArgs = IF asked
                                       THEN <<ShouldRetryArgument(x.retryAttempts)>>
                                       ELSE <<>>,
                            !.vetoed = @ \/ (asked /\ ~verdict)]
    IN  IF RetryCondition(got, x.retryAttempts, options, verdict)
        THEN LET retryAttempts == x.retryAttempts + 1
                 delay == getDelay(this_options, response, retryAttempts,
                                   options.delay, now, rnd1, rnd2)
             IN  Suspend([seen EXCEPT !.retryAttempts = retryAttempts,
                                      !.approved = @ + 1,
                                      !.reqOptions = StampRetryAttempt(seen, retryAttempts),
                                      !.stamps = @ + 1,
                                      !.draws = <<rnd1, rnd2>>],
                         delay)
        ELSE Return(seen)

\* The clock readings getDelay can make for the response: Date.now() is read
\* only for a Retry-After value that is not a number.
ClockReadings(response) ==
    IF /\ HeadersHas(response.headers, RETRY_AFTER_HEADER)
       /\ Number(response.headers[RETRY_AFTER_HEADER]).nan
    THEN Clock ELSE {0}

\* The first getRandomness() draw getDelay can make for the response: none
\* (0 here) when the response has a Retry-After header.
FirstDraws(response) ==
    IF HeadersHas(response.headers, RETRY_AFTER_HEADER) THEN {0} ELSE Jitter

\* The verdicts of the shouldRetry call of the condition: it is called only
\* when the checks before it hold (&& short-circuits).
Verdicts(x, response) ==
    IF MechanicalChecks([x EXCEPT !.response = <<response>>], x.retryAttempts,
                        x.options[1])
    THEN shouldRetry(x.options[1], x.options[1].delay,
                     ShouldRetryArgument(x.retryAttempts),
                     x.request, x.reqOptions, response)
    ELSE {FALSE}

\* next.execute resolves.
NextReturns(e) ==
    /\ ex[e].pc = "executing"
    /\ \E response \in Responses :
        \E verdict \in Verdicts(ex[e], response) :
            \E now \in IF verdict THEN ClockReadings(response) ELSE {0},
               rnd1 \in IF verdict THEN FirstDraws(response) ELSE {0},
               rnd2 \in IF verdict THEN Jitter ELSE {0} :
                ex' = [ex EXCEPT ![e] = AfterResponse(@, response, verdict, now, rnd1, rnd2)]
    /\ UNCHANGED this_options

\* The frame as it would be if executeWithRetry caught the rejection and went
\* on to wait and retry.
AfterRejectionCaught(x, error) ==
    [x EXCEPT !.pc = "sleeping",
              !.failure = <<[error |-> error, calls |-> x.calls,
                             waits |-> x.waits, stamps |-> x.stamps]>>,
              !.delay = <<Num(x.options[1].delay)>>,
              !.draws = <<0, 0>>,
              !.timer = <<sleep(Num(x.options[1].delay))>>,
              !.waits = @ + 1]

\* The frame after next.execute rejected with error: nothing catches it, so
\* every enclosing executeWithRetry and execute reject with it.
AfterRejection(x, error) ==
    [x EXCEPT !.pc = "failed",
              !.rejection = <<error>>,
              !.failure = <<[error |-> error, calls |-> x.calls,
                             waits |-> x.waits, stamps |-> x.stamps]>>]

\* next.execute rejects.
NextThrows(e) ==
    /\ ex[e].pc = "executing"
    /\ \E error \in TransportErrors :
        ex' = [ex EXCEPT ![e] = AfterRejection(@, error)]
    /\ UNCHANGED this_options

\* The frame after the timer fired as it would be if the recursive call were
\* given 0 in place of the incremented retryAttempts.
AfterSleepCounterReset(x) ==
    [x EXCEPT !.pc = "executing",
              !.delay = <<>>,
              !.draws = <<>>,
              !.timer = <<>>,
              !.fired = @ + 1,
              !.retryAttempts = 0,
              !.calls = @ + 1]

\* The frame after the timer of sleep fired: the recursive executeWithRetry
\* invokes next.execute.
AfterSleep(x) ==
    [x EXCEPT !.pc = "executing",
              !.delay = <<>>,
              !.draws = <<>>,
              !.timer = <<>>,
              !.fired = @ + 1,
              !.calls = @ + 1]

\* The timer set by sleep fires.
TimerFires(e) ==
    /\ ex[e].pc = "sleeping"
    /\ ex' = [ex EXCEPT ![e] = AfterSleep(@)]
    /\ UNCHANGED this_options

\* The caller cancels the exchange (or its timeout expires) while the frame
\* is suspended in sleep: nothing in sleep or executeWithRetry observes it.
Cancel(e) ==
    /\ ex[e].pc = "sleeping"
    /\ ex[e].cancelledAt = <<>>
    /\ ex' = [ex EXCEPT ![e] = [@ EXCEPT !.cancelledAt = <<ex[e].calls>>]]
    /\ UNCHANGED this_options

Next ==
    \/ \E e \in DOMAIN ex : execute(e)
    \/ \E e \in DOMAIN ex : NextReturns(e)
    \/ \E e \in DOMAIN ex : NextThrows(e)
    \/ \E e \in DOMAIN ex : TimerFires(e)
    \/ \E e \in DOMAIN ex : Cancel(e)

Spec == Init /\ [][Next]_vars

(***************************************************************************)
(* Two exchanges through one handler.  The promises of both are on the one *)
(* event loop, so the steps of the two interleave in every order.          *)
(***************************************************************************)
\* The options the shared handler is constructed with.
ConfiguredDefault ==
    [maxRetries |-> MaxRetriesBound, delay |-> 3000, maxDelay |-> 180000,
     shouldRetry |-> "always"]

\* The override the second context carries.
CallOverride ==
    [maxRetries |-> 1, delay |-> 1000, maxDelay |-> 2000, shouldRetry |-> "custom"]

JsonRequest(method) ==
    [method |-> method, headers |-> ("Content-Type" :> "application/json")]

InitConc ==
    /\ this_options = ConfiguredDefault
    /\ ex = (1 :> NewExchange(JsonRequest(POST), <<>>))
            @@ (2 :> NewExchange(JsonRequest(GET), <<[retryOptions |-> <<CallOverride>>]>>))

SpecConc == InitConc /\ [][Next]_vars

(***************************************************************************)
(* Properties                                                              *)
(***************************************************************************)
Started(e) == ex[e].pc # "idle"

Policy(e) == ex[e].options[1]

\* The payload condition as the specification states it: a PUT, PATCH or POST
\* whose Content-Type is application/octet-stream cannot be replayed.
StreamUpload(reqOptions) ==
    /\ reqOptions.method \in {PUT, PATCH, POST}
    /\ HeadersHas(reqOptions.headers, "Content-Type")
    /\ reqOptions.headers["Content-Type"] = "application/octet-stream"

HasOverride(e) ==
    /\ Len(ex[e].middlewareControl) = 1
    /\ Len(ex[e].middlewareControl[1].retryOptions) = 1

Override(e) == ex[e].middlewareControl[1].retryOptions[1]

\* The response carries a Retry-After that is a non-negative number of seconds.
HasSecondsHint(response) ==
    /\ HeadersHas(response.headers, RETRY_AFTER_HEADER)
    /\ ~Number(response.headers[RETRY_AFTER_HEADER]).nan
    /\ Number(response.headers[RETRY_AFTER_HEADER]).v >= 0

Hint(response) == Number(response.headers[RETRY_AFTER_HEADER])

Decimals == <<"1", "2", "3", "4", "5", "6", "7", "8", "9">>

\* C1: an exchange whose first response has a status other than 429, 503 and
\* 504 ends after that one downstream invocation, whatever maxRetries, the
\* method, the content type and shouldRetry are.
C1_NonRetryableStatusInvokedOnce ==
    \A e \in DOMAIN ex :
        (ex[e].responses >= 1 /\ ~ex[e].firstRetryable)
            => (ex[e].calls = 1 /\ ex[e].pc = "done" /\ ex[e].waits = 0)

\* C1 witness: a 500 ended an exchange that had retries left and a predicate
\* that approves.
C1_Witness ==
    \E e \in DOMAIN ex :
        /\ ex[e].pc = "done"
        /\ ex[e].calls = 1
        /\ ex[e].response[1].status = 500
        /\ Policy(e).maxRetries = MaxRetriesBound
        /\ Policy(e).shouldRetry = "always"

\* C2: with maxRetries = N the downstream step is invoked at most N+1 times,
\* and exactly N+1 times by the time the exchange returns if every response
\* was retryable, the payload replayable and no shouldRetry call vetoed.
C2_AtMostAndExactlyNPlusOne ==
    \A e \in DOMAIN ex :
        Started(e) =>
            /\ ex[e].calls <= Policy(e).maxRetries + 1
            /\ ( /\ ex[e].pc = "done"
                 /\ ex[e].allRetryable
                 /\ ~ex[e].vetoed
                 /\ ~StreamUpload(ex[e].reqOptions) )
               => ex[e].calls = Policy(e).maxRetries + 1

\* C2 witness: an exchange returned after MaxRetriesBound + 1 invocations that
\* all answered with a retryable status.
C2_Witness ==
    \E e \in DOMAIN ex :
        /\ ex[e].pc = "done"
        /\ ex[e].allRetryable
        /\ ~ex[e].vetoed
        /\ ~StreamUpload(ex[e].reqOptions)
        /\ Policy(e).maxRetries = MaxRetriesBound
        /\ ex[e].calls = MaxRetriesBound + 1

\* C3: a PUT, PATCH or POST with Content-Type application/octet-stream is never
\* retried (one downstream invocation), and for every other method or content
\* type the payload check does not block a retry.
C3_StreamUploadNeverRetried ==
    \A e \in DOMAIN ex :
        Started(e) =>
            IF StreamUpload(ex[e].reqOptions)
            THEN ex[e].calls = 1
            ELSE isBuffered(ex[e].request, ex[e].reqOptions)

\* C4: when shouldRetry always returns false, the exchange makes exactly one
\* downstream invocation and never waits, for every status and maxRetries.
C4_VetoInvokedOnce ==
    \A e \in DOMAIN ex :
        (Started(e) /\ Policy(e).shouldRetry = "never")
            => (ex[e].calls = 1 /\ ex[e].waits = 0 /\ ex[e].stamps = 0)

\* C4 witness: the predicate was asked about a 503 with retries left, and the
\* exchange ended after its one invocation.
C4_Witness ==
    \E e \in DOMAIN ex :
        /\ ex[e].pc = "done"
        /\ Policy(e).shouldRetry = "never"
        /\ Policy(e).maxRetries = MaxRetriesBound
        /\ ex[e].response[1].status = 503
        /\ ex[e].srCalls = 1
        /\ ex[e].calls = 1

\* C5: once a downstream invocation has raised, the exchange has failed with
\* that very error, and no invocation, wait or header stamping has happened
\* since.
C5_TransportFailurePropagates ==
    \A e \in DOMAIN ex :
        ex[e].failure # <<>> =>
            /\ ex[e].pc = "failed"
            /\ ex[e].rejection = <<ex[e].failure[1].error>>
            /\ ex[e].calls = ex[e].failure[1].calls
            /\ ex[e].waits = ex[e].failure[1].waits
            /\ ex[e].stamps = ex[e].failure[1].stamps

\* C5 witness: the second invocation raised while retries were left.
C5_Witness ==
    \E e \in DOMAIN ex :
        /\ ex[e].pc = "failed"
        /\ ex[e].calls = 2
        /\ ex[e].retryAttempts < Policy(e).maxRetries
        /\ ex[e].rejection = <<"AbortError">>

\* C6: the first invocation is made before any Retry-Attempt header is
\* stamped; during the k-th retry invocation the header is the decimal string
\* of k, having replaced the earlier value; and stamping the same attempt
\* number again changes nothing.
C6_RetryAttemptHeader ==
    \A e \in DOMAIN ex :
        /\ (ex[e].pc = "executing" /\ ex[e].calls = 1)
            => /\ ex[e].stamps = 0
               /\ ~HeadersHas(ex[e].reqOptions.headers, RETRY_ATTEMPT_HEADER)
        /\ (ex[e].pc = "executing" /\ ex[e].calls >= 2)
            => /\ ex[e].stamps = ex[e].calls - 1
               /\ HeadersHas(ex[e].reqOptions.headers, RETRY_ATTEMPT_HEADER)
               /\ ex[e].reqOptions.headers[RETRY_ATTEMPT_HEADER]
                    = Decimals[ex[e].calls - 1]
        /\ ex[e].pc = "sleeping"
            => /\ ex[e].reqOptions.headers[RETRY_ATTEMPT_HEADER]
                    = Decimals[ex[e].retryAttempts]
               /\ StampRetryAttempt(ex[e], ex[e].retryAttempts) = ex[e].reqOptions

\* C6 witness: the second retry invocation is in flight with the header "2".
C6_Witness ==
    \E e \in DOMAIN ex :
        /\ ex[e].pc = "executing"
        /\ ex[e].calls = 3
        /\ ex[e].reqOptions.headers[RETRY_ATTEMPT_HEADER] = "2"

\* C7 as stated: a Retry-After of h seconds makes the delay exactly h, for
\* every attempt number, base delay and maxDelay.
C7_HintIsTheDelay ==
    \A e \in DOMAIN ex :
        (ex[e].pc = "sleeping" /\ HasSecondsHint(ex[e].response[1]))
            => ex[e].delay[1] = Hint(ex[e].response[1])

\* C7 amended: a Retry-After of h seconds makes the delay min(h, maxDelay +
\* jitter) with the handler's maxDelay: exactly h, with no jitter, base delay
\* or backoff term in it, unless h exceeds the cap, and the cap otherwise.
C7_HintIsTheDelayUpToCap ==
    \A e \in DOMAIN ex :
        (ex[e].pc = "sleeping" /\ HasSecondsHint(ex[e].response[1]))
            => LET h == Hint(ex[e].response[1])
                   cap == this_options.maxDelay + ex[e].draws[2]
               IN  ex[e].delay[1] = IF h.v <= cap THEN h ELSE Num(cap)

\* C7 witness: before the second retry, where the backoff term would apply, a
\* hint of 2 seconds under a base delay of 3 seconds gives a delay of 2.
C7_Witness ==
    \E e \in DOMAIN ex :
        /\ ex[e].pc = "sleeping"
        /\ ex[e].retryAttempts = 2
        /\ Policy(e).delay = 3000
        /\ HasSecondsHint(ex[e].response[1])
        /\ Hint(ex[e].response[1]) = Num(2000)
        /\ ex[e].delay[1] = Num(2000)
        /\ ex[e].draws[2] = 999

\* C8: the delay getDelay returns is a number >= 0.
C8_DelayNonNegative ==
    \A e \in DOMAIN ex :
        ex[e].pc = "sleeping" => (~ex[e].delay[1].nan /\ ex[e].delay[1].v >= 0)

\* C9: with a per-call override in the context, maxRetries, shouldRetry, the
\* base delay and the maxDelay cap used in the exchange are the override's:
\* the delay is what getDelay gives with the override's maxDelay.
C9_OverrideSuppliesEveryTunable ==
    \A e \in DOMAIN ex :
        (Started(e) /\ HasOverride(e)) =>
            /\ Policy(e) = Override(e)
            /\ ex[e].calls <= Override(e).maxRetries + 1
            /\ ex[e].pc = "sleeping" =>
                \E now \in ClockReadings(ex[e].response[1]) :
                    ex[e].delay[1] =
                        getDelay(Override(e), ex[e].response[1], ex[e].retryAttempts,
                                 Override(e).delay, now, ex[e].draws[1], ex[e].draws[2])

\* C10: an exchange cancelled during the wait between two attempts makes no
\* further downstream invocation.
C10_CancelledWaitInvokesNothing ==
    \A e \in DOMAIN ex :
        ex[e].cancelledAt # <<>> =>
            (ex[e].calls = ex[e].cancelledAt[1] /\ ex[e].pc # "executing")

\* The backoff term in whole seconds as the claim tabulates it: nothing
\* before the second retry, then 2, 4, 8, ...
TabulatedBackoff(n) == IF n < 2 THEN 0 ELSE 1000 * 2 ^ (n - 1)

InFlight(e) == ex[e].calls - ex[e].responses - Len(ex[e].failure)

\* C12: at most one downstream invocation of an exchange is in flight; each
\* invocation after the first starts when the one before has returned its
\* response and the timer set for the delay computed from it has fired, so
\* exactly one wait separates two consecutive invocations.
C12_StrictlySequential ==
    \A e \in DOMAIN ex :
        /\ InFlight(e) \in {0, 1}
        /\ InFlight(e) = 1 <=> ex[e].pc = "executing"
        /\ Started(e) =>
            /\ ex[e].fired = ex[e].calls - 1
            /\ ex[e].responses >= ex[e].calls - 1
            /\ ex[e].waits = ex[e].fired + (IF ex[e].pc = "sleeping" THEN 1 ELSE 0)
        /\ ex[e].pc = "sleeping" =>
            /\ ex[e].responses = ex[e].calls
            /\ (~ex[e].delay[1].nan /\ ex[e].delay[1].v >= 0)
                => ex[e].timer[1] = ex[e].delay[1].v

\* C12 witness: the third invocation is in flight after two responses and two
\* waits that ran out.
C12_Witness ==
    \E e \in DOMAIN ex :
        /\ ex[e].pc = "executing"
        /\ ex[e].calls = 3
        /\ ex[e].responses = 2
        /\ ex[e].fired = 2

\* The response carries a Retry-After that is neither a number nor a date.
UnparseableHint(response) ==
    /\ HeadersHas(response.headers, RETRY_AFTER_HEADER)
    /\ Number(response.headers[RETRY_AFTER_HEADER]).nan
    /\ DateGetTime(response.headers[RETRY_AFTER_HEADER]).nan

\* C13: after a response whose Retry-After is neither a number nor a date the
\* exchange does not wait with a not-a-number delay nor invoke the downstream
\* step again: the failed calculation is reported instead.
C13_UnparseableHintReported ==
    \A e \in DOMAIN ex :
        (ex[e].response # <<>> /\ UnparseableHint(ex[e].response[1]))
            => /\ ex[e].pc \notin {"sleeping", "executing"}
               /\ ex[e].delay = <<>>

Smaller(a, b) == IF a <= b THEN a ELSE b

\* What C14 says of the counter apart from the invocation count: it is 0
\* before any retry, has grown by one with each approved retry and by nothing
\* else, and never exceeds maxRetries; a returned exchange has made
\* 1 + min(approved retries, maxRetries) invocations.
CounterCountsApprovedRetries(e) ==
    /\ ~Started(e) => ex[e].retryAttempts = 0
    /\ Started(e) =>
        /\ ex[e].retryAttempts = ex[e].approved
        /\ ex[e].retryAttempts <= Policy(e).maxRetries
        /\ ex[e].pc = "done" =>
            ex[e].calls = 1 + Smaller(ex[e].approved, Policy(e).maxRetries)

\* C14 as stated: in every reachable state the counter counts the approved
\* retries, is at most maxRetries, and the number of downstream invocations
\* started so far is attemptNumber + 1.
C14_InvocationsAreCounterPlusOne ==
    \A e \in DOMAIN ex :
        /\ CounterCountsApprovedRetries(e)
        /\ Started(e) => ex[e].calls = ex[e].retryAttempts + 1

\* C14 amended: the same, except that during the wait, after the increment
\* and before the retry is invoked, the number of invocations started equals
\* attemptNumber.
C14_InvocationsAreCounterPlusOneOutsideWait ==
    \A e \in DOMAIN ex :
        /\ CounterCountsApprovedRetries(e)
        /\ Started(e) =>
            ex[e].calls = ex[e].retryAttempts
                            + (IF ex[e].pc = "sleeping" THEN 0 ELSE 1)

\* C14 witness: an exchange waits before its last retry, its counter already
\* at maxRetries and that many invocations started.
C14_Witness ==
    \E e \in DOMAIN ex :
        /\ ex[e].pc = "sleeping"
        /\ Policy(e).maxRetries = MaxRetriesBound
        /\ ex[e].retryAttempts = MaxRetriesBound
        /\ ex[e].approved = MaxRetriesBound
        /\ ex[e].calls = MaxRetriesBound

\* C15: an exchange that ends without a transport failure ends normally,
\* with no error of this layer, every invocation answered, and with
\* context.response the response of its last downstream invocation.
C15_FinalResponseIsTheLast ==
    \A e \in DOMAIN ex :
        (ex[e].pc \in {"done", "failed"} /\ ex[e].failure = <<>>)
            => /\ ex[e].pc = "done"
               /\ ex[e].rejection = <<>>
               /\ ex[e].responses = ex[e].calls
               /\ ex[e].response = ex[e].lastProduced

\* C15 witness: the budget ran out on a third retryable response, which is
\* the one the exchange returns with.
C15_Witness ==
    \E e \in DOMAIN ex :
        /\ ex[e].pc = "done"
        /\ ex[e].calls = 3
        /\ ex[e].retryAttempts = Policy(e).maxRetries
        /\ ex[e].response = <<WithoutRetryAfter(504)>>
        /\ ex[e].lastProduced = <<WithoutRetryAfter(504)>>

\* C16: shouldRetry is called at most once per downstream invocation, and
\* only in an evaluation where attemptNumber < maxRetries, the status is 429,
\* 503 or 504 and the payload is replayable.
C16_PredicateCalledOnlyWhenChecksApprove ==
    \A e \in DOMAIN ex :
        /\ ex[e].srCalls <= ex[e].responses
        /\ ex[e].srArgs # <<>> =>
            /\ ex[e].srArgs[1] < Policy(e).maxRetries
            /\ ex[e].response[1].status \in {429, 503, 504}
            /\ ~StreamUpload(ex[e].reqOptions)

\* C20: in the evaluation that follows the k-th downstream invocation
\* shouldRetry receives attempt number k - 1; if the retry is approved the
\* Retry-Attempt header and the delay are computed with attempt number k, so
\* the backoff term first appears in the delay before the second retry.
C20_PredicateSeesCounterBeforeIncrement ==
    \A e \in DOMAIN ex :
        LET k == ex[e].responses
        IN  /\ (ex[e].pc \in {"sleeping", "done"} /\ ex[e].srArgs # <<>>)
                => ex[e].srArgs = <<k - 1>>
            /\ ex[e].pc = "sleeping" =>
                /\ ex[e].srArgs = <<k - 1>>
                /\ ex[e].retryAttempts = k
                /\ ex[e].reqOptions.headers[RETRY_ATTEMPT_HEADER] = Decimals[k]
                /\ ~HeadersHas(ex[e].response[1].headers, RETRY_AFTER_HEADER) =>
                    LET raw == TabulatedBackoff(k) + Policy(e).delay + ex[e].draws[1]
                        cap == this_options.maxDelay + ex[e].draws[2]
                    IN  /\ ex[e].delay[1] = Num(Smaller(raw, cap))
                        /\ k = 1 => TabulatedBackoff(k) = 0
                        /\ k = 2 => TabulatedBackoff(k) = 2000

\* C20 witness: after the second response the predicate was given 1, and the
\* header and the delay of the second retry use 2: 2 + 3 seconds of delay.
C20_Witness ==
    \E e \in DOMAIN ex :
        /\ ex[e].pc = "sleeping"
        /\ ex[e].responses = 2
        /\ ex[e].srArgs = <<1>>
        /\ ex[e].reqOptions.headers[RETRY_ATTEMPT_HEADER] = "2"
        /\ ~HeadersHas(ex[e].response[1].headers, RETRY_AFTER_HEADER)
        /\ Policy(e).delay = 3000
        /\ ex[e].draws = <<0, 0>>
        /\ ex[e].delay[1] = Num(5000)

(***************************************************************************)
(* The resolved options mutated by code that holds them: shouldRetry is    *)
(* called as a method of the resolved options, so its body can assign to   *)
(* this.maxRetries, and the owner of an override can assign to it.         *)
(***************************************************************************)
\* getOptions as it would be with "options = this.options" in place of the
\* Object.assign into a new RetryHandlerOptions.
ResolvedObjectAliased(middlewareControl) ==
    IF Len(middlewareControl) = 1 /\ Len(middlewareControl[1].retryOptions) = 1
    THEN "override"
    ELSE "handler"

\* The object getOptions returns: the override held by the middlewareControl,
\* or a new RetryHandlerOptions that Object.assign filled from this.options.
ResolvedObject(middlewareControl) ==
    IF Len(middlewareControl) = 1 /\ Len(middlewareControl[1].retryOptions) = 1
    THEN "override"
    ELSE "copy"

\* maxRetries of the options resolved for the exchange is assigned, while
\* the downstream step runs or after the exchange returned: every holder of
\* the same object sees the new value.  One assignment is made in a run.
Mutate(e) ==
    /\ ex[e].pc \in {"executing", "done"}
    /\ \A f \in DOMAIN ex : ~ex[f].mutated
    /\ \E m \in (0..MaxRetriesBound) \ {Policy(e).maxRetries} :
        LET object == ResolvedObject(ex[e].middlewareControl)
            mutatedOptions == [Policy(e) EXCEPT !.maxRetries = m]
        IN  /\ ex' = [ex EXCEPT ![e] =
                        [@ EXCEPT !.options = <<mutatedOptions>>,
                                  !.mutated = TRUE,
                                  !.middlewareControl =
                                      IF object = "override"
                                      THEN <<[retryOptions |-> <<mutatedOptions>>]>>
                                      ELSE @]]
            /\ this_options' = IF object = "handler"
                               THEN [this_options EXCEPT !.maxRetries = m]
                               ELSE this_options

\* The options of the handler whose resolved copies are mutated.
SharedDefault == [ConfiguredDefault EXCEPT !.maxRetries = 1]

InitMutate ==
    /\ this_options = SharedDefault
    /\ \E c \in {<<[retryOptions |-> <<>>]>>, <<[retryOptions |-> <<CallOverride>>]>>} :
        ex = (1 :> NewExchange(JsonRequest(POST), <<>>))
             @@ (2 :> NewExchange(JsonRequest(GET), c))

NextMutate ==
    \/ Next
    \/ \E e \in DOMAIN ex : Mutate(e)

SpecMutate == InitMutate /\ [][NextMutate]_vars

(***************************************************************************)
(* One exchange whose downstream step settles each promise it returns and  *)
(* whose timers fire: a pending "await next.execute" is resumed by the     *)
(* response or the rejection, and setTimeout calls resolve after the       *)
(* delay.  Nothing obliges a caller to call execute or to cancel.          *)
(***************************************************************************)
InitFair ==
    /\ this_options \in HandlerPolicies
    /\ \E c \in {<<>>} \cup {<<[retryOptions |-> <<p>>]>> :
                    p \in {q \in Policies : q.delay = 1000 /\ q.maxDelay = 2000}} :
        ex = (1 :> NewExchange(JsonRequest(POST), c))

SpecFair ==
    /\ InitFair
    /\ [][Next]_vars
    /\ WF_vars(NextReturns(1) \/ NextThrows(1))
    /\ WF_vars(TimerFires(1))

\* What an exchange that runs alone shows of its retry state, in terms of its
\* own context and history only: the policy is the one resolved from its own
\* context, the counter is the number of retries approved for it, the
\* Retry-Attempt header is that number in decimal (absent before a retry),
\* and the invocations are the first plus one for each of its timers fired.
OwnRetryState(e) ==
    /\ ~Started(e) =>
        /\ ex[e].retryAttempts = 0
        /\ ex[e].calls = 0
        /\ ~HeadersHas(ex[e].reqOptions.headers, RETRY_ATTEMPT_HEADER)
    /\ Started(e) =>
        /\ Policy(e) = getOptions(this_options, ex[e].middlewareControl)
        /\ ex[e].retryAttempts = ex[e].approved
        /\ ex[e].retryAttempts <= Policy(e).maxRetries
        /\ ex[e].stamps = ex[e].approved
        /\ IF ex[e].approved = 0
           THEN ~HeadersHas(ex[e].reqOptions.headers, RETRY_ATTEMPT_HEADER)
           ELSE ex[e].reqOptions.headers[RETRY_ATTEMPT_HEADER] = Decimals[ex[e].approved]
        /\ ex[e].calls = ex[e].fired + 1
        /\ ex[e].fired = ex[e].approved - (IF ex[e].pc = "sleeping" THEN 1 ELSE 0)
        /\ ex[e].calls <= Policy(e).maxRetries + 1

\* C17: two exchanges running through one handler with their invocations and
\* waits interleaved in every order share no retry state: the counter, the
\* Retry-Attempt header and the invocation count of each are those of its own
\* context, responses and resolved policy, as if it ran alone.
C17_NoSharedRetryState ==
    /\ this_options = ConfiguredDefault
    /\ \A e \in DOMAIN ex : OwnRetryState(e)

\* C17 witness: the first exchange waits before its second retry under the
\* handler's default while the second, started meanwhile with its own
\* override, has its first retry in flight.
C17_Witness ==
    /\ Cardinality(DOMAIN ex) = 2
    /\ ex[1].pc = "sleeping"
    /\ ex[1].retryAttempts = 2
    /\ ex[1].calls = 2
    /\ ex[1].reqOptions.headers[RETRY_ATTEMPT_HEADER] = "2"
    /\ Policy(1) = ConfiguredDefault
    /\ ex[2].pc = "executing"
    /\ ex[2].retryAttempts = 1
    /\ ex[2].calls = 2
    /\ ex[2].reqOptions.headers[RETRY_ATTEMPT_HEADER] = "1"
    /\ Policy(2) = CallOverride

\* C18: without a usable override the resolved policy is a copy made for the
\* exchange: assigning maxRetries on it, during or after the exchange, leaves
\* the handler's stored default as configured, and every other exchange
\* without an override still resolves and keeps the configured default.
C18_ResolvedPolicyIsACopy ==
    /\ this_options = SharedDefault
    /\ \A e \in DOMAIN ex :
        (Started(e) /\ ~HasOverride(e)) =>
            /\ ResolvedObject(ex[e].middlewareControl) = "copy"
            /\ ~ex[e].mutated => Policy(e) = SharedDefault
            /\ ex[e].mutated =>
                \A f \in DOMAIN ex \ {e} :
                    (Started(f) /\ ~HasOverride(f) /\ ~ex[f].mutated)
                        => Policy(f) = SharedDefault

\* C18 witness: the first exchange returned with maxRetries of its resolved
\* policy changed; the handler's default is as configured and the second
\* exchange, whose middlewareControl holds no retry options, runs with it.
C18_Witness ==
    /\ Cardinality(DOMAIN ex) = 2
    /\ ~HasOverride(1)
    /\ ex[1].mutated
    /\ ex[1].pc = "done"
    /\ Policy(1).maxRetries # SharedDefault.maxRetries
    /\ ~HasOverride(2)
    /\ ex[2].pc = "executing"
    /\ ~ex[2].mutated
    /\ Policy(2) = SharedDefault
    /\ this_options = SharedDefault

\* C19: with a downstream step that always returns or raises and timers
\* that always fire, a started exchange always ends, returned or rejected
\* with the transport failure, and at no point has it made more than
\* maxRetries + 1 downstream invocations or more than maxRetries waits, even
\* when every response is retryable.
C19_EveryExchangeTerminates ==
    /\ [](\A e \in DOMAIN ex :
            Started(e) => /\ ex[e].calls <= Policy(e).maxRetries + 1
                          /\ ex[e].waits <= Policy(e).maxRetries)
    /\ (Started(1) ~> ex[1].pc \in {"done", "failed"})

\* C19 witness: every response was retryable and approved for a retry until
\* the budget ran out, and the exchange returned after maxRetries + 1
\* invocations and maxRetries waits.
C19_Witness ==
    \E e \in DOMAIN ex :
        /\ ex[e].pc = "done"
        /\ ex[e].allRetryable
        /\ Policy(e).maxRetries = MaxRetriesBound
        /\ ex[e].calls = MaxRetriesBound + 1
        /\ ex[e].waits = MaxRetriesBound
        /\ ex[e].fired = MaxRetriesBound

====
